---- MODULE Spec2Model ----
(***************************************************************************)
(* Builder daemon: the job registry (JobManager), the Job with its bounded *)
(* log buffer, the POST /start/:name handler and the log streaming of      *)
(* GET /logs/:name and GET /logs/by-id/:id.                                *)
(*                                                                         *)
(* The daemon is one Node.js event loop: every action below is one         *)
(* callback run to completion (an HTTP handler, a child-process event, a   *)
(* timer).                                                                 *)
(***************************************************************************)
EXTENDS Integers, Sequences, FiniteSets, TLC

(***************************************************************************)
(* Bounds of the model.                                                    *)
(***************************************************************************)
\* Jobs constructed over a run (each takes a fresh id).
MaxCreated == 2
\* Length of a name given to Job.isValidName.
MaxNameLen == 3
\* Length of an argument, and of an argument list, given to
\* Job.isValidArguments.
MaxArgLen == 2
MaxArgs == 2
\* Subscriptions (log requests that reach streamJobLogs) over a run.
MaxSubs == 2
\* 'data' events of the child processes over a run.
MaxData == 2

(***************************************************************************)
(* Configuration (config.js); the values are what the environment sets.    *)
(***************************************************************************)
\* Log buffer size of a Job in bytes.
COMMAND_MAX_BUFFER == 3
\* Maximum number of simultaneous jobs.
COMMAND_MAX_JOBS == 1

(***************************************************************************)
(* Values.                                                                 *)
(***************************************************************************)
\* Job.State
RUNNING == "RUNNING"
EXITED == "EXITED"

\* JobError messages (errors.js).
ERROR_INVALID_NAME == "Job name is invalid"
ERROR_INVALID_ARGS == "Job arguments are invalid"
ERROR_ALREADY_RUNNING == "Job is already running"
ERROR_JOB_NOT_FOUND == "Job does not exists"
ERROR_MAX_JOBS == "Maximum number of jobs are already running"

JobErrors ==
    {ERROR_INVALID_NAME, ERROR_INVALID_ARGS, ERROR_ALREADY_RUNNING,
     ERROR_JOB_NOT_FOUND, ERROR_MAX_JOBS}

\* An error that is no JobError: what child_process.spawn throws.
SPAWN_ERROR == "Error: spawn"

\* subprocess.exitCode is null until the child exits with a code; a child
\* killed by a signal keeps exitCode null (its signalCode is set instead).
NULL == "null"
ExitCodes == {"0"}

\* Word characters of a request's :name: \w is [A-Za-z0-9_].
WordChars == {"a", "b", "_"}

\* The names requests carry: sequences of characters.
Names == {<<"a", "b">>, <<"b", "-", "+", "_", "a">>, <<"+", "a", "b">>}

\* Bytes. A fresh Buffer.alloc is zero-filled; 97 is 'a'; 195 169 is the
\* UTF-8 encoding of U+00E9; 239 191 189 is the encoding of U+FFFD.
ZeroByte == 0
Chunks == {<<97>>, <<195, 169>>, <<195>>}

(***************************************************************************)
(* Job.isValidName and Job.isValidArguments.                               *)
(***************************************************************************)
\* /^\w[\w-]+$/ on one string.
SegmentMatches(s) ==
    /\ Len(s) >= 2
    /\ s[1] \in WordChars
    /\ \A i \in 2..Len(s) : s[i] \in WordChars \cup {"-"}

\* String.prototype.split('+'): the pieces between the separators.
RECURSIVE SplitFrom(_, _, _)
SplitFrom(s, i, cur) ==
    IF i > Len(s) THEN <<cur>>
    ELSE IF s[i] = "+" THEN <<cur>> \o SplitFrom(s, i + 1, <<>>)
    ELSE SplitFrom(s, i + 1, Append(cur, s[i]))

Split(s) == SplitFrom(s, 1, <<>>)

\* /^\w[\w-]+(\+\w[\w-]+)*$/ : segments joined by '+'.
isValidName(name) ==
    \A k \in 1..Len(Split(name)) : SegmentMatches(Split(name)[k])

isValidArguments(args) ==
    \A k \in 1..Len(args) : SegmentMatches(args[k])

(***************************************************************************)
(* Text conversion of the 'data' handlers: data.toString() decodes the     *)
(* chunk as UTF-8, Buffer.write(string, offset) encodes it again.          *)
(***************************************************************************)
\* U+FFFD, what the decoder puts in place of an invalid sequence.
ReplacementChar == 65533

\* Buffer.prototype.toString(): the code points of a chunk. One-byte and
\* two-byte sequences are decoded; a lead byte without its continuation
\* byte (also at the end of the chunk) and a lone continuation byte become
\* U+FFFD. (No chunk of the model holds a lead byte of a longer sequence.)
RECURSIVE DecodeFrom(_, _)
DecodeFrom(data, i) ==
    IF i > Len(data) THEN <<>>
    ELSE IF data[i] < 128 THEN <<data[i]>> \o DecodeFrom(data, i + 1)
    ELSE IF /\ data[i] \in 194..223
            /\ i + 1 <= Len(data)
            /\ data[i + 1] \in 128..191
         THEN <<(data[i] - 192) * 64 + (data[i + 1] - 128)>> \o DecodeFrom(data, i + 2)
    ELSE <<ReplacementChar>> \o DecodeFrom(data, i + 1)

toString(data) == DecodeFrom(data, 1)

\* The UTF-8 bytes of one code point below 65536.
EncodeChar(cp) ==
    IF cp < 128 THEN <<cp>>
    ELSE IF cp < 2048 THEN <<192 + (cp \div 64), 128 + (cp % 64)>>
    ELSE <<224 + (cp \div 4096), 128 + ((cp \div 64) % 64), 128 + (cp % 64)>>

\* buf with the bytes bs stored from (0-based) offset on.
StoreAt(buf, offset, bs) ==
    [k \in 1..Len(buf) |->
        IF k > offset /\ k <= offset + Len(bs) THEN bs[k - offset] ELSE buf[k]]

\* Buffer.prototype.write(string, offset): stores the characters of the
\* string from offset on while a whole character fits, and stops at the
\* first one that does not ("partially encoded characters will not be
\* written"). The result is the buffer and the number of bytes written.
RECURSIVE WriteFrom(_, _, _, _, _)
WriteFrom(buf, str, i, offset, written) ==
    IF i > Len(str) \/ offset + Len(EncodeChar(str[i])) > Len(buf)
    THEN [buffer |-> buf, written |-> written]
    ELSE WriteFrom(StoreAt(buf, offset, EncodeChar(str[i])), str, i + 1,
                   offset + Len(EncodeChar(str[i])),
                   written + Len(EncodeChar(str[i])))

BufferWrite(buf, str, offset) == WriteFrom(buf, str, 1, offset, 0)

\* Buffer.prototype.slice(start, end): bytes start..end-1 (0-based).
BufferSlice(buf, start, end) == SubSeq(buf, start + 1, end)

\* Buffer.alloc(size): zero-filled.
BufferAlloc(size) == [k \in 1..size |-> ZeroByte]

(***************************************************************************)
(* State.                                                                  *)
(***************************************************************************)
VARIABLES
    daemon,     \* "up", or the uncaught exception that ended the process
    nodeMode,   \* what the runtime does with an unhandled promise rejection
    job,        \* the Job objects ever constructed; job[i] has id i
    jobs,       \* JobManager.jobs: Map name -> Job (its id)
    subs,       \* the calls of streamJobLogs: cursor, stream, listeners
    response,   \* the answer to POST /start/:name this step sent, if any
    nData,      \* 'data' events so far
    probe       \* a call of the validators: its input and its results

vars == <<daemon, nodeMode, job, jobs, subs, response, nData, probe>>

\* Map.prototype.get of a missing key, and the result of getById when no
\* Job matches: undefined. Job ids start at 1.
NoJob == 0

\* --unhandled-rejections: "warn" prints a warning (the default of Node.js
\* before 15), "throw" raises an uncaught exception (the default since).
NodeModes == {"warn", "throw"}

\* Outcomes of child_process.spawn: the child runs; spawn throws; or spawn
\* returns and the ChildProcess emits 'error' on the next tick (ENOENT,
\* EACCES, ...).
SpawnOutcomes == {"ok", "throw", "error"}

NoBody == [kind |-> "none", name |-> <<>>, id |-> NoJob]
ErrBody == [kind |-> "error", name |-> <<>>, id |-> NoJob]
JobBody(j) == [kind |-> "job", name |-> job[j].name, id |-> j]

\* A step that is no start request sends no answer to one.
NoResponse == [status |-> 0, body |-> NoBody, outcome |-> "none"]

\* No call of the validators on its own: the daemon calls them in create.
NoProbe == [name |-> <<>>, args |-> <<>>, nameOk |-> "-", argsOk |-> "-"]

(***************************************************************************)
(* Job                                                                     *)
(***************************************************************************)
\* Job constructor, after the validation and a spawn that did not throw.
\* crypto.randomBytes(16) gives the id; the model numbers the Jobs instead.
\* `emitted` (every byte the child wrote) and `lastFrom` (the offset the
\* last 'data' event appended at) record the history of the output.
NewJob(name, outcome) ==
    [name |-> name,
     logBuffer |-> BufferAlloc(COMMAND_MAX_BUFFER),
     logBufferLen |-> 0,
     exitCode |-> NULL,
     phase |-> IF outcome = "ok" THEN "running" ELSE "spawnerror",
     timeout |-> "none",
     emitted |-> <<>>,
     lastFrom |-> 0]

\* Job.getState
JobGetState(j) == IF j.exitCode = NULL THEN RUNNING ELSE EXITED

\* Job.isRunning
JobIsRunning(j) == JobGetState(j) = RUNNING

(***************************************************************************)
(* JobManager                                                              *)
(***************************************************************************)
\* JobManager.get
ManagerGet(m, name) == IF name \in DOMAIN m THEN m[name] ELSE NoJob

\* JobManager.getById: the first Job of the map with that id.
ManagerGetById(m, id) ==
    IF \E n \in DOMAIN m : m[n] = id THEN id ELSE NoJob

\* JobManager.isRunning with the comparison of the state inverted.
ManagerIsRunningInverted(m, name) ==
    name \in DOMAIN m /\ JobGetState(job[ManagerGet(m, name)]) = EXITED

\* JobManager.isRunning
ManagerIsRunning(m, name) ==
    name \in DOMAIN m /\ JobGetState(job[ManagerGet(m, name)]) = RUNNING

\* clearTimeout(handle): cancels the timer when handle is an active Timeout
\* and does nothing for any other object.
ClearTimeout(js, handle) ==
    IF handle.kind = "Timeout" /\ js[handle.id].timeout = "pending"
    THEN [js EXCEPT ![handle.id].timeout = "cleared"]
    ELSE js

\* `this.jobs.length`: a Map has no length property.
JsUndefined == [type |-> "undefined", val |-> 0]
JsNumber(n) == [type |-> "number", val |-> n]
MapLength(m) == JsUndefined

\* x >= n in JavaScript: undefined converts to NaN, and NaN >= n is false.
JsGreaterEq(x, n) == x.type = "number" /\ x.val >= n

\* Map.prototype.set and Map.prototype.delete
MapSet(m, name, id) ==
    [n \in DOMAIN m \cup {name} |-> IF n = name THEN id ELSE m[n]]
MapDelete(m, name) == [n \in DOMAIN m \ {name} |-> m[n]]

\* JobManager.replace(name, job): the result is the map and the Jobs.
ManagerReplace(m, js, name, id) ==
    LET oldJob == ManagerGet(m, name)
    IN  [jobs |-> MapSet(m, name, id),
         job |-> IF oldJob # NoJob /\ js[oldJob].timeout # "none"
                 THEN ClearTimeout(js, [kind |-> "Job", id |-> oldJob])
                 ELSE js]

\* JobManager.remove(job)
ManagerRemove(m, js, id) ==
    LET oldJob == ManagerGet(m, js[id].name)
    IN  [jobs |-> MapDelete(m, js[id].name),
         job |-> IF oldJob # NoJob /\ js[oldJob].timeout # "none"
                 THEN ClearTimeout(js, [kind |-> "Job", id |-> oldJob])
                 ELSE js]

\* JobManager.create(name, extraArgs) with the Job constructor: what it
\* throws ("none": it returns the Job `id`), and the state it leaves.
ManagerCreate(name, extraArgs, outcome) ==
    LET args == extraArgs \o Split(name)
        id == Len(job) + 1
        Throw(e) == [threw |-> e, id |-> NoJob, jobs |-> jobs, job |-> job]
    IN  IF ManagerIsRunning(jobs, name) THEN Throw(ERROR_ALREADY_RUNNING)
        ELSE IF JsGreaterEq(MapLength(jobs), COMMAND_MAX_JOBS) THEN Throw(ERROR_MAX_JOBS)
        ELSE IF ~isValidName(name) THEN Throw(ERROR_INVALID_NAME)
        ELSE IF ~isValidArguments(args) THEN Throw(ERROR_INVALID_ARGS)
        ELSE IF outcome = "throw" THEN Throw(SPAWN_ERROR)
        ELSE LET r == ManagerReplace(jobs, Append(job, NewJob(name, outcome)), name, id)
             IN  [threw |-> "none", id |-> id, jobs |-> r.jobs, job |-> r.job]

(***************************************************************************)
(* POST /start/:name                                                       *)
(***************************************************************************)
\* JobError.isOfType
IsOfType(err, errors) == err \in errors

\* The catch block of the handler: the answer to the error create threw.
StartCatch(err, name, m) ==
    LET Answer(st, b) == [status |-> st, body |-> b, outcome |-> err]
    IN  IF err \notin JobErrors THEN Answer(500, ErrBody)
        ELSE IF IsOfType(err, {ERROR_INVALID_NAME, ERROR_INVALID_ARGS})
             THEN Answer(400, NoBody)
        ELSE IF IsOfType(err, {ERROR_ALREADY_RUNNING})
             THEN IF ManagerGet(m, name) # NoJob
                  THEN Answer(409, JobBody(ManagerGet(m, name)))
                  ELSE Answer(500, ErrBody)
        ELSE IF IsOfType(err, {ERROR_ALREADY_RUNNING})
             THEN Answer(429, NoBody)
        ELSE Answer(500, ErrBody)

Up == daemon = "up"

\* No 'error' event of a failed spawn is waiting for the next tick: the
\* event loop runs the next-tick queue before any other callback.
NoTick == \A i \in 1..Len(job) : job[i].phase # "spawnerror"

\* The handler of POST /start/:name.
Start(name) ==
    /\ Up /\ NoTick
    /\ Len(job) < MaxCreated
    /\ \E outcome \in SpawnOutcomes :
         LET r == ManagerCreate(name, <<>>, outcome)
         IN  /\ jobs' = r.jobs
             /\ job' = r.job
             /\ response' =
                  IF r.threw = "none"
                  THEN [status |-> 202,
                        body |-> [kind |-> "job", name |-> r.job[r.id].name, id |-> r.id],
                        outcome |-> "none"]
                  ELSE StartCatch(r.threw, name, jobs)
    /\ UNCHANGED <<daemon, nodeMode, subs, nData, probe>>

Init ==
    /\ daemon = "up"
    /\ nodeMode \in NodeModes
    /\ job = <<>>
    /\ jobs = [n \in {} |-> NoJob]
    /\ subs = <<>>
    /\ response = NoResponse
    /\ nData = 0
    /\ probe = NoProbe

(***************************************************************************)
(* Child process events.                                                   *)
(***************************************************************************)
\* A 'data' listener that sends the whole log again and moves the cursor
\* by the length of what it sent.
DataListenerResend(sub, jb) ==
    [sub EXCEPT !.received = @ \o BufferSlice(jb.logBuffer, 0, jb.logBufferLen),
                !.pos = @ + jb.logBufferLen]

\* The 'data' listener streamJobLogs registers, run for one subscriber.
DataListener(sub, jb) ==
    IF sub.pos >= jb.logBufferLen THEN sub
    ELSE [sub EXCEPT !.received = @ \o BufferSlice(jb.logBuffer, sub.pos, jb.logBufferLen),
                     !.pos = jb.logBufferLen]

\* this.emit('data', n): the listeners of the Job, in the order they were
\* registered.
EmitData(ss, j, jb) ==
    [s \in 1..Len(ss) |->
        IF ss[s].job = j /\ ss[s].listening THEN DataListener(ss[s], jb) ELSE ss[s]]

\* The 'data' handler of process.stdout and of process.stderr.
DataHandler(j, data) ==
    LET w == BufferWrite(job[j].logBuffer, toString(data), job[j].logBufferLen)
        jb == [job[j] EXCEPT !.logBuffer = w.buffer,
                             !.logBufferLen = @ + w.written,
                             !.emitted = @ \o data,
                             !.lastFrom = job[j].logBufferLen]
    IN  /\ job' = [job EXCEPT ![j] = jb]
        /\ subs' = EmitData(subs, j, jb)

\* Streams that would deliver 'data' also after the 'close' of the child.
ReadableAfterClose(j) == job[j].phase \in {"running", "exited", "closed"}

\* The streams of a child stay open after the child exited, until 'close'.
Readable(j) == job[j].phase \in {"running", "exited"}

OnStdoutData(j, data) ==
    /\ Up /\ NoTick
    /\ Readable(j)
    /\ nData < MaxData
    /\ DataHandler(j, data)
    /\ nData' = nData + 1
    /\ response' = NoResponse
    /\ UNCHANGED <<daemon, nodeMode, jobs, probe>>

\* As for stdout; the copy to the daemon's own stderr is not part of the state.
OnStderrData(j, data) ==
    /\ Up /\ NoTick
    /\ Readable(j)
    /\ nData < MaxData
    /\ DataHandler(j, data)
    /\ nData' = nData + 1
    /\ response' = NoResponse
    /\ UNCHANGED <<daemon, nodeMode, jobs, probe>>

\* The child ends: with an exit code, or killed by a signal (code = NULL,
\* as after COMMAND_TIMEOUT). Node sets exitCode; the Job listens to nothing.
ProcessExit(j, code) ==
    /\ Up /\ NoTick
    /\ job[j].phase = "running"
    /\ job' = [job EXCEPT ![j].phase = "exited", ![j].exitCode = code]
    /\ response' = NoResponse
    /\ UNCHANGED <<daemon, nodeMode, jobs, subs, nData, probe>>

\* The 'close' listener streamJobLogs registers, run for one subscriber: it
\* names `res`, which is no variable of streamJobLogs, when bytes are left.
CloseListener(sub, jb) ==
    IF sub.pos < jb.logBufferLen
    THEN [sub |-> sub, threw |-> "ReferenceError: res is not defined"]
    ELSE [sub |-> [sub EXCEPT !.ended = TRUE], threw |-> "none"]

\* this.emit('close', code) for the subscribers from s on, in the order they
\* were registered; a listener that throws ends the emit.
RECURSIVE EmitClose(_, _, _, _)
EmitClose(ss, s, j, jb) ==
    IF s > Len(ss) THEN [subs |-> ss, threw |-> "none"]
    ELSE IF ss[s].job = j /\ ss[s].listening
         THEN LET r == CloseListener(ss[s], jb)
              IN  IF r.threw # "none" THEN [subs |-> ss, threw |-> r.threw]
                  ELSE EmitClose([ss EXCEPT ![s] = r.sub], s + 1, j, jb)
    ELSE EmitClose(ss, s + 1, j, jb)

\* process 'close': the stdio streams are closed. The Job emits 'close';
\* the listener of JobManager.create, registered first, starts the cleanup
\* timer, then the subscribers' listeners run. An exception of a listener
\* is uncaught.
ProcessClose(j) ==
    /\ Up /\ NoTick
    /\ job[j].phase = "exited"
    /\ LET jb == [job[j] EXCEPT !.phase = "closed", !.timeout = "pending"]
           r == EmitClose(subs, 1, j, jb)
       IN  /\ job' = [job EXCEPT ![j] = jb]
           /\ subs' = r.subs
           /\ daemon' = IF r.threw = "none" THEN daemon ELSE r.threw
    /\ response' = NoResponse
    /\ UNCHANGED <<nodeMode, jobs, nData, probe>>

\* process 'error' after a failed spawn: the handler names `job`, which is
\* no variable of the module, so it throws and the exception is uncaught.
ProcessError(j) ==
    /\ Up
    /\ job[j].phase = "spawnerror"
    /\ job' = [job EXCEPT ![j].phase = "errored"]
    /\ daemon' = "ReferenceError: job is not defined"
    /\ response' = NoResponse
    /\ UNCHANGED <<nodeMode, jobs, subs, nData, probe>>

\* The cleanup timer of Job j elapses: this.remove(job).
TimerFire(j) ==
    /\ Up /\ NoTick
    /\ job[j].timeout = "pending"
    /\ LET r == ManagerRemove(jobs, [job EXCEPT ![j].timeout = "fired"], j)
       IN  /\ jobs' = r.jobs
           /\ job' = r.job
    /\ response' = NoResponse
    /\ UNCHANGED <<daemon, nodeMode, subs, nData, probe>>

(***************************************************************************)
(* GET /logs/:name and GET /logs/by-id/:id                                 *)
(***************************************************************************)
\* http.ServerResponse.write(chunk, encoding, callback): the whole chunk is
\* sent; a Buffer ignores the encoding, and a callback that is no function
\* is ignored.
StreamWrite(received, chunk, encoding, callback) == received \o chunk

\* streamJobLogs(job, stream). `at` is the phase of the child at the call.
\* With the Job no longer running the function names `res`, which is not
\* its variable: the async handler's promise is rejected and nothing
\* handles the rejection.
StreamJobLogs(j) ==
    LET pos == job[j].logBufferLen
        sub == [job |-> j,
                pos |-> pos,
                received |-> StreamWrite(<<>>, job[j].logBuffer, 0, pos),
                listening |-> JobIsRunning(job[j]),
                ended |-> FALSE,
                connected |-> TRUE,
                at |-> job[j].phase]
    IN  /\ Len(subs) < MaxSubs
        /\ subs' = Append(subs, sub)
        /\ daemon' = IF JobIsRunning(job[j]) \/ nodeMode = "warn"
                     THEN daemon
                     ELSE "ReferenceError: res is not defined"
        /\ response' = NoResponse
        /\ UNCHANGED <<nodeMode, job, jobs, nData, probe>>

\* The client of a log request goes away before the daemon ended the
\* stream. streamJobLogs listens to no event of the request, the response
\* or the socket, so nothing of the daemon runs: its listeners on the Job
\* stay registered.
ClientDisconnect(s) ==
    /\ Up
    /\ subs[s].connected /\ ~subs[s].ended
    /\ subs' = [subs EXCEPT ![s].connected = FALSE]
    /\ response' = NoResponse
    /\ UNCHANGED <<daemon, nodeMode, job, jobs, nData, probe>>

\* GET /logs/:name; without a Job of that name the answer is 400.
LogsByName(name) ==
    /\ Up /\ NoTick
    /\ IF ManagerGet(jobs, name) = NoJob
       THEN response' = NoResponse /\ UNCHANGED <<daemon, nodeMode, job, jobs, subs, nData, probe>>
       ELSE StreamJobLogs(ManagerGet(jobs, name))

\* GET /logs/by-id/:id
LogsById(id) ==
    /\ Up /\ NoTick
    /\ IF ManagerGetById(jobs, id) = NoJob
       THEN response' = NoResponse /\ UNCHANGED <<daemon, nodeMode, job, jobs, subs, nData, probe>>
       ELSE StreamJobLogs(ManagerGetById(jobs, id))

(***************************************************************************)
(* The daemon.                                                             *)
(***************************************************************************)
JobIds == 1..Len(job)

Next ==
    \/ \E name \in Names : Start(name)
    \/ \E j \in JobIds, data \in Chunks : OnStdoutData(j, data)
    \/ \E j \in JobIds, data \in Chunks : OnStderrData(j, data)
    \/ \E j \in JobIds, code \in ExitCodes \cup {NULL} : ProcessExit(j, code)
    \/ \E j \in JobIds : ProcessClose(j)
    \/ \E j \in JobIds : ProcessError(j)
    \/ \E j \in JobIds : TimerFire(j)
    \/ \E name \in Names : LogsByName(name)
    \/ \E id \in 1..MaxCreated : LogsById(id)

Spec == Init /\ [][Next]_vars

(***************************************************************************)
(* The registry alone: start requests, the ends and closes of the          *)
(* children and the cleanup timers, with no output and no subscriber.      *)
(***************************************************************************)
NextRegistry ==
    \/ \E name \in Names : Start(name)
    \/ \E j \in JobIds, code \in ExitCodes \cup {NULL} : ProcessExit(j, code)
    \/ \E j \in JobIds : ProcessClose(j)
    \/ \E j \in JobIds : ProcessError(j)
    \/ \E j \in JobIds : TimerFire(j)

SpecRegistry == Init /\ [][NextRegistry]_vars

(***************************************************************************)
(* The start handler on every error of errors.js: create is given as       *)
(* throwing `err`, and the catch block answers.                            *)
(***************************************************************************)
StartThrows(name, err) ==
    /\ Up /\ NoTick
    /\ Len(job) < MaxCreated
    /\ err = ERROR_ALREADY_RUNNING => ManagerIsRunning(jobs, name)
    /\ response' = StartCatch(err, name, jobs)
    /\ UNCHANGED <<daemon, nodeMode, job, jobs, subs, nData, probe>>

NextHandler ==
    \/ \E name \in Names : Start(name)
    \/ \E name \in Names, err \in JobErrors \cup {SPAWN_ERROR} : StartThrows(name, err)
    \/ \E j \in JobIds, code \in ExitCodes \cup {NULL} : ProcessExit(j, code)
    \/ \E j \in JobIds : ProcessClose(j)
    \/ \E j \in JobIds : ProcessError(j)
    \/ \E j \in JobIds : TimerFire(j)

SpecHandler == Init /\ [][NextHandler]_vars

(***************************************************************************)
(* The Jobs alone: start requests and the events of the children, with no  *)
(* subscriber and no cleanup.                                              *)
(***************************************************************************)
NextJob ==
    \/ \E name \in Names : Start(name)
    \/ \E j \in JobIds, data \in Chunks : OnStdoutData(j, data)
    \/ \E j \in JobIds, data \in Chunks : OnStderrData(j, data)
    \/ \E j \in JobIds, code \in ExitCodes \cup {NULL} : ProcessExit(j, code)
    \/ \E j \in JobIds : ProcessClose(j)
    \/ \E j \in JobIds : ProcessError(j)

SpecJob == Init /\ [][NextJob]_vars

(***************************************************************************)
(* The subscribers: log requests whose clients may go away, with the       *)
(* start requests and the events of the children.                          *)
(***************************************************************************)
NextSubscribers ==
    \/ \E name \in Names : Start(name)
    \/ \E j \in JobIds, data \in Chunks : OnStdoutData(j, data)
    \/ \E j \in JobIds, code \in ExitCodes \cup {NULL} : ProcessExit(j, code)
    \/ \E j \in JobIds : ProcessClose(j)
    \/ \E j \in JobIds : ProcessError(j)
    \/ \E id \in 1..MaxCreated : LogsById(id)
    \/ \E s \in 1..Len(subs) : ClientDisconnect(s)

SpecSubscribers == Init /\ [][NextSubscribers]_vars

(***************************************************************************)
(* The log streams of the Jobs of one name: its start requests, the events *)
(* of the children, the cleanup timers and the log requests by id.         *)
(***************************************************************************)
StreamedName == <<"a", "b">>

NextStream ==
    \/ Start(StreamedName)
    \/ \E j \in JobIds, data \in Chunks : OnStdoutData(j, data)
    \/ \E j \in JobIds, data \in Chunks : OnStderrData(j, data)
    \/ \E j \in JobIds, code \in ExitCodes \cup {NULL} : ProcessExit(j, code)
    \/ \E j \in JobIds : ProcessClose(j)
    \/ \E j \in JobIds : ProcessError(j)
    \/ \E j \in JobIds : TimerFire(j)
    \/ \E id \in 1..MaxCreated : LogsById(id)

SpecStream == Init /\ [][NextStream]_vars

(***************************************************************************)
(* The validators alone: Job.isValidName and Job.isValidArguments are      *)
(* static and exported with Job; each is called on an input.               *)
(***************************************************************************)
\* The sequences over S of length up to n.
StringsUpTo(S, n) == UNION {[1..k -> S] : k \in 0..n}

\* Characters of the inputs: two word characters, the hyphen, the
\* separator, and a character outside the alphabet of the pattern.
NameChars == {"a", "_", "-", "+", "!"}
ArgChars == {"a", "-", "!"}

NameInputs == StringsUpTo(NameChars, MaxNameLen)
ArgInputs == StringsUpTo(StringsUpTo(ArgChars, MaxArgLen), MaxArgs)

InitValidator ==
    /\ daemon = "up"
    /\ nodeMode \in NodeModes
    /\ job = <<>>
    /\ jobs = [n \in {} |-> NoJob]
    /\ subs = <<>>
    /\ response = NoResponse
    /\ nData = 0
    /\ probe \in [name : NameInputs, args : ArgInputs, nameOk : {"-"}, argsOk : {"-"}]

\* The result of RegExp.prototype.test, as the probe records it.
Verdict(b) == IF b THEN "true" ELSE "false"

\* Job.isValidName(name)
CallIsValidName ==
    /\ probe.nameOk = "-"
    /\ probe' = [probe EXCEPT !.nameOk = Verdict(isValidName(probe.name))]
    /\ UNCHANGED <<daemon, nodeMode, job, jobs, subs, response, nData>>

\* Job.isValidArguments(args)
CallIsValidArguments ==
    /\ probe.argsOk = "-"
    /\ probe' = [probe EXCEPT !.argsOk = Verdict(isValidArguments(probe.args))]
    /\ UNCHANGED <<daemon, nodeMode, job, jobs, subs, response, nData>>

NextValidator ==
    \/ CallIsValidName
    \/ CallIsValidArguments

SpecValidator == InitValidator /\ [][NextValidator]_vars

(***************************************************************************)
(* Properties.                                                             *)
(***************************************************************************)
Min(a, b) == IF a <= b THEN a ELSE b

\* The bytes logBuffer[0:logBufferLen] of a Job.
Log(jb) == SubSeq(jb.logBuffer, 1, jb.logBufferLen)

\* chunk occurs in stream as a run of consecutive bytes.
Contains(stream, chunk) ==
    \E k \in 0..(Len(stream) - Len(chunk)) :
        SubSeq(stream, k + 1, k + Len(chunk)) = chunk

SubIds == 1..Len(subs)

\* C1: a start request for a name whose Job in the registry is RUNNING is
\* answered 409 (create threw AlreadyRunning) with the {name, id} of that
\* Job, and neither the registry nor the Jobs change.
C1_AlreadyRunning ==
    [][\A name \in Names :
          (/\ name \in DOMAIN jobs
           /\ job[jobs[name]].exitCode = NULL
           /\ Start(name))
          => /\ response'.outcome = ERROR_ALREADY_RUNNING
             /\ response'.status = 409
             /\ response'.body = [kind |-> "job", name |-> name, id |-> jobs[name]]
             /\ jobs' = jobs
             /\ job' = job]_vars

\* C1 witness: a conflict was answered with the id of the Job that is still
\* the running Job of that name.
C1_Witness ==
    /\ response.status = 409
    /\ response.body.kind = "job"
    /\ response.body.name \in DOMAIN jobs
    /\ jobs[response.body.name] = response.body.id
    /\ job[response.body.id].exitCode = NULL
    /\ job[response.body.id].phase = "running"

\* C2: the registry never tracks more than COMMAND_MAX_JOBS Jobs: a start
\* request that would exceed the maximum fails with ERROR_MAX_JOBS and
\* registers nothing.
C2_RegistryBounded == Cardinality(DOMAIN jobs) <= COMMAND_MAX_JOBS

\* C3: once a subscriber's stream is ended, what it received is exactly
\* logBuffer[0:logBufferLen] of its Job.
C3_StreamEqualsLog ==
    \A s \in SubIds :
        subs[s].ended => subs[s].received = Log(job[subs[s].job])

\* C4: once a Job has closed, the last chunk appended to its log buffer has
\* been delivered to every subscriber that attached before the close.
C4_LastChunkDelivered ==
    \A s \in SubIds :
        LET jb == job[subs[s].job]
        IN  (jb.phase = "closed" /\ subs[s].at # "closed")
            => Contains(subs[s].received,
                        BufferSlice(jb.logBuffer, jb.lastFrom, jb.logBufferLen))

\* C5: a subscription to a finished Job (EXITED, its streams closed)
\* registers no listener, is ended at once and has received
\* logBuffer[0:logBufferLen].
C5_FinishedReplay ==
    \A s \in SubIds :
        (subs[s].at = "closed" /\ JobGetState(job[subs[s].job]) = EXITED)
        => /\ ~subs[s].listening
           /\ subs[s].ended
           /\ subs[s].received = Log(job[subs[s].job])

\* C6: the log buffer holds the first min(bytes emitted, capacity) bytes of
\* the output of the child.
C6_Truncation ==
    \A j \in JobIds :
        LET kept == Min(Len(job[j].emitted), COMMAND_MAX_BUFFER)
        IN  /\ job[j].logBufferLen \in 0..COMMAND_MAX_BUFFER
            /\ job[j].logBufferLen = kept
            /\ Log(job[j]) = SubSeq(job[j].emitted, 1, kept)

\* C7: a start request that replaces an exited Job whose cleanup timer has
\* not fired is answered 202 with a new id, and the old Job is still found
\* by getById.
C7_OldJobById ==
    [][\A name \in Names :
          (/\ name \in DOMAIN jobs
           /\ JobGetState(job[jobs[name]]) = EXITED
           /\ job[jobs[name]].timeout # "fired"
           /\ Start(name)
           /\ Len(job') > Len(job))
          => /\ response'.status = 202
             /\ response'.body.id # jobs[name]
             /\ ManagerGetById(jobs', jobs[name]) = jobs[name]]_vars

\* C8: the cleanup of a Job removes the registry entry of its name if that
\* entry is this Job, and leaves the registry as it is otherwise.
C8_RemoveOnlySelf ==
    [][\A j \in JobIds :
          TimerFire(j)
          => jobs' = IF ManagerGet(jobs, job[j].name) = j
                     THEN MapDelete(jobs, job[j].name)
                     ELSE jobs]_vars

\* C9: a Job whose spawn failed is not in the registry, its start request
\* was not answered 202, and the failure does not end the daemon.
C9_SpawnFailure ==
    \A j \in JobIds :
        job[j].phase \in {"spawnerror", "errored"}
        => /\ ManagerGetById(jobs, j) = NoJob
           /\ response.body.id # j
           /\ daemon # "ReferenceError: job is not defined"

\* C10: the status of the answer to a start request is the one of the
\* outcome of create.
C10_StatusMapping ==
    \/ response.status = 0
    \/ /\ response.outcome = "none"
       /\ response.status = 202
       /\ response.body.kind = "job"
    \/ /\ response.outcome \in {ERROR_INVALID_NAME, ERROR_INVALID_ARGS}
       /\ response.status = 400
    \/ /\ response.outcome = ERROR_ALREADY_RUNNING
       /\ response.status = 409
       /\ response.body.kind = "job"
    \/ /\ response.outcome = ERROR_MAX_JOBS
       /\ response.status = 429
    \/ /\ response.outcome \notin {"none", ERROR_INVALID_NAME, ERROR_INVALID_ARGS,
                                   ERROR_ALREADY_RUNNING, ERROR_MAX_JOBS}
       /\ response.status = 500

\* A segment of a name as the documentation of isValidName gives it: one
\* or more characters, the first a word character, the others word
\* characters or hyphens.
DocumentedSegment(s) ==
    /\ Len(s) >= 1
    /\ s[1] \in WordChars
    /\ \A i \in 2..Len(s) : s[i] \in WordChars \cup {"-"}

\* The pieces of a string between its '+' characters, left to right.
RECURSIVE Segments(_)
Segments(s) ==
    IF \E i \in 1..Len(s) : s[i] = "+"
    THEN LET i == CHOOSE k \in 1..Len(s) :
                      s[k] = "+" /\ \A m \in 1..(k - 1) : s[m] # "+"
         IN  <<SubSeq(s, 1, i - 1)>> \o Segments(SubSeq(s, i + 1, Len(s)))
    ELSE <<s>>

\* C11: isValidName(name) is true exactly for the names made of one or more
\* segments joined by single '+', each segment of one or more characters,
\* the first a word character, the others word characters or hyphens (so
\* the one-character name 'a' is valid); isValidArguments applies the rule
\* of one segment to every argument.
C11_ValidNames ==
    /\ probe.nameOk # "-"
         => probe.nameOk =
              Verdict(\A k \in 1..Len(Segments(probe.name)) :
                         DocumentedSegment(Segments(probe.name)[k]))
    /\ probe.argsOk # "-"
         => probe.argsOk =
              Verdict(\A k \in 1..Len(probe.args) : DocumentedSegment(probe.args[k]))

\* C12: the 'close' of a Job is emitted once, after the last append to its
\* log buffer: from the 'close' on the Job stays closed, and no 'data' event
\* of its child arrives, so neither its output nor its log buffer grows.
C12_NoDataAfterClose ==
    [][\A j \in JobIds :
          job[j].phase = "closed"
          => /\ job'[j].phase = "closed"
             /\ job'[j].emitted = job[j].emitted
             /\ job'[j].logBuffer = job[j].logBuffer
             /\ job'[j].logBufferLen = job[j].logBufferLen]_vars

\* C12 witness: a Job closed after output was appended to its log buffer,
\* at a moment another Job can still receive output.
C12_Witness ==
    \E j \in JobIds :
        /\ job[j].phase = "closed"
        /\ job[j].logBufferLen > 0
        /\ nData < MaxData

\* C13: the state of a Job turns from RUNNING to EXITED when its output
\* streams close: whenever isRunning() is false the 'close' of the Job has
\* been emitted (and so its logBufferLen has stopped changing), and a Job
\* whose 'close' has been emitted is not RUNNING.
C13_ExitedWithClose ==
    \A j \in JobIds :
        /\ ~JobIsRunning(job[j]) => job[j].phase = "closed"
        /\ job[j].phase = "closed" => ~JobIsRunning(job[j])

\* C14: a start request that installs a new Job under a name whose previous
\* Job has a pending cleanup timer cancels that timer (so it never fires),
\* and the new Job, with no timer of its own yet, is the Job of the name.
C14_OldTimerCancelled ==
    [][\A name \in Names :
          (/\ name \in DOMAIN jobs
           /\ job[jobs[name]].timeout = "pending"
           /\ Start(name)
           /\ Len(job') > Len(job))
          => /\ job'[jobs[name]].timeout = "cleared"
             /\ ManagerGet(jobs', name) = Len(job')
             /\ job'[Len(job')].timeout = "none"]_vars

\* C15: a Job that has not closed, and a closed Job whose grace period has
\* not elapsed, is found by get(name) and by getById(id) unless a later Job
\* replaced it: no timer removes a Job before its own grace period is over.
C15_RetrievableUntilElapsed ==
    \A j \in JobIds :
        (/\ \/ job[j].phase \in {"running", "exited"}
            \/ job[j].phase = "closed" /\ job[j].timeout = "pending"
         /\ \A k \in JobIds : k > j => job[k].name # job[j].name)
        => /\ ManagerGet(jobs, job[j].name) = j
           /\ ManagerGetById(jobs, j) = j

\* C16: once a Job has closed, every subscriber that attached while the Job
\* was RUNNING (and so registered its listeners) has been sent the bytes up
\* to logBufferLen and its stream has been ended.
C16_ClosedEndsSubscribers ==
    \A s \in SubIds :
        (subs[s].listening /\ job[subs[s].job].phase = "closed")
        => /\ subs[s].pos = job[subs[s].job].logBufferLen
           /\ subs[s].ended

\* C17: a call of streamJobLogs first writes to the subscriber exactly the
\* bytes logBuffer[0:logBufferLen] of that moment, none of the unused rest
\* of the buffer, and starts the cursor at that logBufferLen.
C17_InitialChunk ==
    [][Len(subs') > Len(subs)
         => LET sub == subs'[Len(subs')]
            IN  /\ sub.received = Log(job[sub.job])
                /\ Len(sub.received) = job[sub.job].logBufferLen
                /\ sub.pos = job[sub.job].logBufferLen]_vars

\* C18: after a subscriber disconnected, its listeners are off the Job: no
\* later event of the Job writes to its stream or ends it.
C18_DisconnectedIsLeftAlone ==
    [][\A s \in SubIds :
          ~subs[s].connected
          => /\ subs'[s].received = subs[s].received
             /\ subs'[s].pos = subs[s].pos
             /\ subs'[s].ended = subs[s].ended]_vars

\* C19: a Job that is RUNNING, its child alive, is the Job get(name) returns
\* for its name; so at most one Job of a name is RUNNING.
C19_RunningIsRegistered ==
    /\ \A j \in JobIds :
          (JobGetState(job[j]) = RUNNING /\ job[j].phase = "running")
          => ManagerGet(jobs, job[j].name) = j
    /\ \A j, k \in JobIds :
          (/\ JobGetState(job[j]) = RUNNING /\ job[j].phase = "running"
           /\ JobGetState(job[k]) = RUNNING /\ job[k].phase = "running"
           /\ job[j].name = job[k].name)
          => j = k

\* C20: the cursor of a subscriber lies between 0 and logBufferLen, which
\* is at most the capacity of the buffer, and never decreases; a 'data'
\* event that finds the cursor at logBufferLen writes nothing; nothing is
\* written to a stream that has been ended.
C20_Cursor ==
    [][\A s \in SubIds :
          LET jb == job[subs[s].job]
              jbNext == job'[subs[s].job]
          IN  /\ 0 <= subs[s].pos
              /\ subs[s].pos <= jb.logBufferLen
              /\ jb.logBufferLen <= COMMAND_MAX_BUFFER
              /\ subs'[s].pos >= subs[s].pos
              /\ subs'[s].pos <= jbNext.logBufferLen
              /\ jbNext.logBufferLen <= COMMAND_MAX_BUFFER
              /\ subs[s].pos >= jbNext.logBufferLen
                   => subs'[s].received = subs[s].received
              /\ subs[s].ended => subs'[s].received = subs[s].received]_vars

\* C20 witness: a subscriber whose cursor a 'data' event has moved to the
\* end of a full buffer, and whose stream the 'close' has then ended.
C20_Witness ==
    \E s \in SubIds :
        /\ subs[s].pos = COMMAND_MAX_BUFFER
        /\ Len(subs[s].received) > COMMAND_MAX_BUFFER
        /\ subs[s].ended

====
